---- MODULE Spec2Model ----
(***************************************************************************)
(* A model of the hub (server/index.js, FileSystemServer) and of the edge  *)
(* (the client, FileSystemClient) of the real-time directory replication   *)
(* system, with the filesystem, the chokidar watchers and the socket.io    *)
(* channels they run on.                                                   *)
(***************************************************************************)
EXTENDS Integers, Sequences, FiniteSets, TLC

(***************************************************************************)
(* Bounds of the model.                                                    *)
(***************************************************************************)
\* Longest relative path, in segments.
MaxDepth == 2
\* Entries a tree may hold when the environment (a user) creates one more.
MaxEntries == 3
\* Sessions (sockets) the hub serves.
NumSessions == 2
\* Operations the sessions of the hub-only specification submit in all.
MaxOps == 2
\* Filesystem mutations users make in the whole-system specification.
MaxMutations == 1
\* Messages a channel or a watcher queue holds.
MaxQueue == 3

(***************************************************************************)
(* Paths, file contents, filesystem trees.                                 *)
(***************************************************************************)
\* Names of directory entries; ".h" is a hidden name (it starts with a dot).
Segments == {"a", "b", ".h"}
HiddenSegments == {".h"}

\* Relative paths as sequences of segments: <<"a","b">> is a/b.  The root
\* itself is the empty path and is always a directory.
Paths == UNION {[1..k -> Segments] : k \in 1..MaxDepth}
Root == <<>>

\* File contents: byte sequences.
Contents == {<<1>>, <<2, 2>>}

Sessions == 1..NumSessions

Parent(p) == SubSeq(p, 1, Len(p) - 1)
Prefixes(p) == {SubSeq(p, 1, i) : i \in 1..Len(p)}
IsPrefix(p, q) == Len(p) <= Len(q) /\ SubSeq(q, 1, Len(p)) = p
\* q is p or lies under p
Under(p, q) == IsPrefix(p, q)

Absent == [kind |-> "none", content |-> <<>>, mode |-> 0]
FileNode(c, m) == [kind |-> "file", content |-> c, mode |-> m]
DirNode(m) == [kind |-> "dir", content |-> <<>>, mode |-> m]

EmptyFs == [p \in Paths |-> Absent]
KindAt(fs, p) == IF p = Root THEN "dir" ELSE IF p \in Paths THEN fs[p].kind ELSE "none"

\* The permission bits (stat.mode & 0o777) a newly created entry gets.
DefaultMode(kind) == IF kind = "dir" THEN 493 ELSE 420

\* All paths, deepest first, in a fixed order.
RECURSIVE SetToSeq(_)
SetToSeq(S) == IF S = {} THEN <<>>
               ELSE LET x == CHOOSE y \in S : \A z \in S : Len(y) >= Len(z)
                    IN <<x>> \o SetToSeq(S \ {x})
DeepFirst == SetToSeq(Paths)
RECURSIVE Reverse(_)
Reverse(s) == IF s = <<>> THEN <<>> ELSE Reverse(Tail(s)) \o <<Head(s)>>
ShallowFirst == Reverse(DeepFirst)

(***************************************************************************)
(* chokidar: the events a mutation of a watched tree raises.               *)
(***************************************************************************)
Ev(event, p) == [event |-> event, path |-> p]

\* ignored: /(^|[\/\\])\../  -- a path with a segment that starts with a dot
IsHidden(p) == \E i \in 1..Len(p) : p[i] \in HiddenSegments
WatcherIgnoresMutant(p) == FALSE
WatcherIgnores(p) == IsHidden(p)
Watched(events) == SelectSeq(events, LAMBDA e : ~WatcherIgnores(e.path))

(***************************************************************************)
(* fs-extra: each operation returns [ok, fs, events]: whether it succeeded, *)
(* the tree afterwards and the raw watcher events of what it changed.      *)
(***************************************************************************)
FsResult(ok, fs, events) == [ok |-> ok, fs |-> fs, events |-> events]
FsFail(fs) == FsResult(FALSE, fs, <<>>)

\* fs.ensureDir(p): mkdir -p; fails when p or one of its ancestors is a file
FsEnsureDir(fs, p) ==
    IF p = Root THEN FsResult(TRUE, fs, <<>>)
    ELSE IF p \notin Paths \/ \E q \in Prefixes(p) : fs[q].kind = "file" THEN FsFail(fs)
    ELSE LET new == {q \in Prefixes(p) : fs[q].kind = "none"}
         IN FsResult(TRUE,
                     [q \in Paths |-> IF q \in new THEN DirNode(DefaultMode("dir")) ELSE fs[q]],
                     [e \in 1..Len(SelectSeq(ShallowFirst, LAMBDA q : q \in new)) |->
                         Ev("addDir", SelectSeq(ShallowFirst, LAMBDA q : q \in new)[e])])

\* fs.writeFile(p, bytes): the parent must be a directory, p must not be one
FsWriteFileMutant(fs, p, bytes) ==
    IF p \notin Paths \/ KindAt(fs, Parent(p)) # "dir" \/ fs[p].kind = "dir" THEN FsFail(fs)
    ELSE FsResult(TRUE,
                  [fs EXCEPT ![p] = FileNode(fs[p].content \o bytes,
                                             IF fs[p].kind = "file" THEN fs[p].mode
                                             ELSE DefaultMode("file"))],
                  <<Ev(IF fs[p].kind = "file" THEN "change" ELSE "add", p)>>)
FsWriteFile(fs, p, bytes) ==
    IF p \notin Paths \/ KindAt(fs, Parent(p)) # "dir" \/ fs[p].kind = "dir" THEN FsFail(fs)
    ELSE FsResult(TRUE,
                  [fs EXCEPT ![p] = FileNode(bytes, IF fs[p].kind = "file" THEN fs[p].mode
                                                    ELSE DefaultMode("file"))],
                  <<Ev(IF fs[p].kind = "file" THEN "change" ELSE "add", p)>>)

\* fs.remove(p): rm -rf; a missing path is no error.  When the watched
\* directory itself goes, the watcher reports it after its entries.
FsRemoveMutant(fs, p) ==
    IF KindAt(fs, p) = "none" THEN FsFail(fs)
    ELSE FsResult(TRUE,
                  [q \in Paths |-> IF Under(p, q) THEN Absent ELSE fs[q]],
                  <<Ev(IF fs[p].kind = "dir" THEN "unlinkDir" ELSE "unlink", p)>>)
FsRemove(fs, p) ==
    LET gone == {q \in Paths : Under(p, q) /\ fs[q].kind # "none"}
        order == SelectSeq(DeepFirst, LAMBDA q : q \in gone)
    IN FsResult(TRUE,
                [q \in Paths |-> IF q \in gone THEN Absent ELSE fs[q]],
                [i \in 1..Len(order) |->
                    Ev(IF fs[order[i]].kind = "dir" THEN "unlinkDir" ELSE "unlink", order[i])]
                \o (IF p = Root THEN <<Ev("unlinkDir", Root)>> ELSE <<>>))

\* fs.chmod(p, mode): the path must exist
FsChmod(fs, p, mode) ==
    IF p \notin Paths \/ fs[p].kind = "none" THEN FsFail(fs)
    ELSE FsResult(TRUE, [fs EXCEPT ![p].mode = mode], <<>>)

(***************************************************************************)
(* Directory snapshot: getFileSystemState (hub) and getLocalFiles (edge).  *)
(* order is the order in which fs.readdir lists the names of a directory.  *)
(***************************************************************************)
Orders == {o \in [1..Cardinality(Segments) -> Segments] :
              \A i, j \in 1..Cardinality(Segments) : i # j => o[i] # o[j]}

Item(p, type, size) == [path |-> p, type |-> type, size |-> size]

\* if (entry.name.startsWith('.')) continue;
SkipsEntry(name) == name \in HiddenSegments

RECURSIVE WalkFrom(_, _, _, _)
\* the entries order[i..] of directory base, each directory followed by its subtree
WalkFrom(fs, base, order, i) ==
    IF i > Len(order) THEN <<>>
    ELSE LET p == Append(base, order[i])
             rest == WalkFrom(fs, base, order, i + 1)
         IN IF SkipsEntry(order[i]) \/ p \notin Paths THEN rest
            ELSE IF fs[p].kind = "dir"
                 THEN <<Item(p, "directory", 0)>> \o WalkFrom(fs, p, order, 1) \o rest
            ELSE IF fs[p].kind = "file"
                 THEN <<Item(p, "file", Len(fs[p].content))>> \o rest
            ELSE rest

GetFileSystemStateMutant(fs, order) == Reverse(WalkFrom(fs, Root, order, 1))
GetFileSystemState(fs, order) == WalkFrom(fs, Root, order, 1)
GetLocalFiles(fs, order) == WalkFrom(fs, Root, order, 1)

ItemPaths(items) == {items[i].path : i \in 1..Len(items)}

(***************************************************************************)
(* The state.                                                              *)
(***************************************************************************)
VARIABLES
    hubFs,            \* the tree under the hub's watchDir
    hubWatchQ,        \* events the hub's chokidar watcher has yet to deliver
    clients,          \* this.clients: the connected sessions
    walking,          \* sessions whose sendFileSystemState is still collecting
    toHub,            \* per session, the messages in flight to the hub
    toEdge,           \* per session, the messages in flight to the edge
    hubRunning,       \* the hub's process has not exited
    hubWriting,       \* the writes of handleClientOperation awaiting their fs.writeFile
    lastOp,           \* history: the fileOperation the hub handled last, whether it
                      \* succeeded and whether it repeated the one before
    opsLeft,          \* operations the bare sessions may still submit
    edgeFs,           \* per edge, the tree under its localDir
    edgeWatchQ,       \* per edge, events its watcher has yet to deliver
    watcher,          \* per edge, "none", "starting" or "ready"
    isInitialSync,    \* per edge, this.isInitialSync
    activeOperations, \* per edge, this.activeOperations (the ledger)
    timers,           \* per edge, keys with a pending setTimeout(..., 500)
    applying,         \* per edge, handleServerChange calls awaiting their fs call
    fileModes,        \* per edge, this.fileModes
    edgePhase,        \* per edge, "idle", "synced" or "failed" (the state handler)
    pollTimers,       \* per edge, the setInterval timers startModePolling has set
    mutationsLeft,    \* mutations the users may still make
    dropsLeft,        \* times the transport of an edge may still drop
    snap              \* the last snapshot taken, in the snapshot specification

hubVars == <<hubFs, hubWatchQ, clients, walking, hubRunning, hubWriting, lastOp>>
netVars == <<toHub, toEdge>>
edgeVars == <<edgeFs, edgeWatchQ, watcher, isInitialSync, activeOperations, timers,
              applying, fileModes, edgePhase, pollTimers>>
envVars == <<opsLeft, mutationsLeft, dropsLeft, snap>>
vars == <<hubVars, netVars, edgeVars, envVars>>

(***************************************************************************)
(* Messages.                                                               *)
(***************************************************************************)
\* content.toString('base64') and Buffer.from(content, 'base64'): the text of
\* a byte sequence, one character code per byte, and back; characters outside
\* the alphabet are skipped by the decoder.
ToBase64(bytes) == [i \in DOMAIN bytes |-> bytes[i] + 64]
FromBase64(text) ==
    LET chars == SelectSeq(text, LAMBDA c : c > 64)
    IN [i \in DOMAIN chars |-> chars[i] - 64]
\* a field the sender left out (undefined)
NoContent == <<0>>
NoMode == -1
NoPath == <<"">>

\* edge -> hub
FileOperation(operation, p, content, newPath, mode) ==
    [type |-> "fileOperation", operation |-> operation, path |-> p,
     content |-> content, newPath |-> newPath, mode |-> mode, isNull |-> FALSE]
RequestFileContent(p) ==
    [type |-> "requestFileContent", operation |-> "", path |-> p,
     content |-> NoContent, newPath |-> NoPath, mode |-> NoMode, isNull |-> FALSE]
\* socket.emit(type, null): the payload is not an object
NullPayload(type) ==
    [type |-> type, operation |-> "", path |-> NoPath,
     content |-> NoContent, newPath |-> NoPath, mode |-> NoMode, isNull |-> TRUE]

\* hub -> edge.  History: origin is the session whose operation made the
\* change a fileSystemChange reports, 0 when a user of the hub made it.
FileSystemState(files) ==
    [type |-> "fileSystemState", event |-> "", path |-> NoPath, ftype |-> "",
     content |-> NoContent, mode |-> NoMode, files |-> files, origin |-> 0]
FileSystemChange(event, p, ftype, content, mode) ==
    [type |-> "fileSystemChange", event |-> event, path |-> p, ftype |-> ftype,
     content |-> content, mode |-> mode, files |-> <<>>, origin |-> 0]
FileContent(p, content) ==
    [type |-> "fileContent", event |-> "", path |-> p, ftype |-> "",
     content |-> content, mode |-> NoMode, files |-> <<>>, origin |-> 0]
OperationError(operation, p) ==
    [type |-> "operationError", event |-> operation, path |-> p, ftype |-> "",
     content |-> NoContent, mode |-> NoMode, files |-> <<>>, origin |-> 0]

\* socket.emit(msg) to the sessions of `to` that are connected
Emit(chan, to, msg) == [s \in Sessions |-> IF s \in to THEN Append(chan[s], msg) ELSE chan[s]]

(***************************************************************************)
(* The hub: FileSystemServer.                                              *)
(***************************************************************************)
\* fs.move(src, dst), overwrite off: src must exist, dst must not, dst must
\* not lie under src; the parent of dst is created
Moved(src, dst, q) == dst \o SubSeq(q, Len(src) + 1, Len(q))
FsMove(fs, src, dst) ==
    LET from == {q \in Paths : Under(src, q) /\ fs[q].kind # "none"}
        mk == FsEnsureDir(fs, Parent(dst))
    IN IF src \notin Paths \/ dst \notin Paths THEN FsFail(fs)
       ELSE IF fs[src].kind = "none" \/ fs[dst].kind # "none" \/ Under(src, dst) THEN FsFail(fs)
       ELSE IF \E q \in from : Moved(src, dst, q) \notin Paths THEN FsFail(fs)
       ELSE IF ~mk.ok THEN FsFail(fs)
       ELSE LET to == {Moved(src, dst, q) : q \in from}
                old == SelectSeq(DeepFirst, LAMBDA q : q \in from)
                new == SelectSeq(ShallowFirst, LAMBDA q : q \in to)
                after == [q \in Paths |->
                            IF q \in to
                            THEN fs[CHOOSE o \in from : Moved(src, dst, o) = q]
                            ELSE IF q \in from THEN Absent ELSE mk.fs[q]]
            IN FsResult(TRUE, after,
                        mk.events
                        \o [i \in 1..Len(old) |->
                              Ev(IF fs[old[i]].kind = "dir" THEN "unlinkDir" ELSE "unlink", old[i])]
                        \o [i \in 1..Len(new) |->
                              Ev(IF after[new[i]].kind = "dir" THEN "addDir" ELSE "add", new[i])])

OpResult(ok, fs, events, chmod) == [ok |-> ok, fs |-> fs, events |-> events, chmod |-> chmod]

\* handleClientOperation(data): path.join throws when data has no path, then
\* the switch on data.operation.  chmod is set when the operation ends with
\* this.io.emit('fileSystemChange', {chmod}).
HandleClientOperation(fs, d) ==
    CASE d.path = NoPath -> OpResult(FALSE, fs, <<>>, FALSE)
      [] d.operation = "write" ->
            LET mk == FsEnsureDir(fs, Parent(d.path))
                wr == FsWriteFile(mk.fs, d.path, FromBase64(d.content))
            IN IF ~mk.ok THEN OpResult(FALSE, fs, <<>>, FALSE)
               ELSE IF d.content = NoContent \/ ~wr.ok THEN OpResult(FALSE, mk.fs, mk.events, FALSE)
               ELSE OpResult(TRUE, wr.fs, mk.events \o wr.events, FALSE)
      [] d.operation = "delete" ->
            LET rm == FsRemove(fs, d.path) IN OpResult(rm.ok, rm.fs, rm.events, FALSE)
      [] d.operation = "mkdir" ->
            LET mk == FsEnsureDir(fs, d.path) IN OpResult(mk.ok, mk.fs, mk.events, FALSE)
      [] d.operation = "rename" ->
            LET mv == FsMove(fs, d.path, d.newPath) IN OpResult(mv.ok, mv.fs, mv.events, FALSE)
      [] d.operation = "chmod" ->
            LET ch == FsChmod(fs, d.path, d.mode)
            IN IF d.mode = NoMode THEN OpResult(FALSE, fs, <<>>, FALSE)
               ELSE OpResult(ch.ok, ch.fs, ch.events, ch.ok)
      [] OTHER -> OpResult(FALSE, fs, <<>>, FALSE)

\* handleFileChange(event, watchedPath): the broadcast for one watcher event;
\* the content of an added or changed file is read now
HandleFileChangeMutant(fs, ev) ==
    FileSystemChange(ev.event, ev.path,
                     IF ev.event \in {"addDir", "unlinkDir"} THEN "directory" ELSE "file",
                     NoContent, NoMode)
HandleFileChange(fs, ev) ==
    IF ev.event \in {"add", "change"}
    THEN IF KindAt(fs, ev.path) = "file"
         THEN FileSystemChange(ev.event, ev.path, "file", ToBase64(fs[ev.path].content), NoMode)
         ELSE FileSystemChange(ev.event, ev.path, "file", NoContent, NoMode)
    ELSE FileSystemChange(ev.event, ev.path,
                          IF ev.event \in {"addDir", "unlinkDir"} THEN "directory" ELSE "file",
                          NoContent, NoMode)

\* socket.emit('operationError', ...): to the session of the failed message
ErrorRecipientsMutant(s) == clients
ErrorRecipients(s) == {s}
\* this.io.emit('fileSystemChange', {event: 'chmod', ...}): to every session,
\* the one that submitted the chmod included
ChmodRecipientsMutant(s) == clients \ {s}
ChmodRecipients(s) == clients
\* socket.emit('fileSystemState', files): to the new session
StateRecipients(s) == {s} \cap clients

\* what the hub's watcher raises for the raw events of a change of its tree.
\* History: by is the session whose operation made the change, 0 for a user.
HubRaises(events, by) ==
    [i \in 1..Len(Watched(events)) |->
        [event |-> Watched(events)[i].event, path |-> Watched(events)[i].path, by |-> by]]

NoOp == [data |-> FileOperation("", NoPath, NoContent, NoPath, NoMode), ok |-> TRUE, again |-> FALSE]

\* the queues of the model are bounded: a sender waits for room
Room(chan, to) == \A s \in to : Len(chan[s]) < MaxQueue

\* io.on('connection'): the session is recorded and sendFileSystemState
\* starts collecting the snapshot
HubConnection(s) ==
    /\ hubRunning
    /\ s \notin clients
    /\ clients' = clients \cup {s}
    /\ walking' = walking \cup {s}
    /\ UNCHANGED <<hubFs, hubWatchQ, hubRunning, hubWriting, lastOp, netVars, edgeVars, envVars>>

\* sendFileSystemState, once getFileSystemState has returned
HubSendState(s, order) ==
    /\ hubRunning
    /\ s \in walking
    /\ Room(toEdge, {s})
    /\ walking' = walking \ {s}
    /\ toEdge' = Emit(toEdge, StateRecipients(s), FileSystemState(GetFileSystemState(hubFs, order)))
    /\ UNCHANGED <<hubFs, hubWatchQ, clients, hubRunning, hubWriting, lastOp, toHub, edgeVars, envVars>>

\* socket.on('disconnect'); what was in flight on the socket is lost
HubDisconnect(s) ==
    /\ s \in clients
    /\ clients' = clients \ {s}
    /\ walking' = walking \ {s}
    /\ toHub' = [toHub EXCEPT ![s] = <<>>]
    /\ toEdge' = [toEdge EXCEPT ![s] = <<>>]
    /\ UNCHANGED <<hubFs, hubWatchQ, hubRunning, hubWriting, lastOp, edgeVars, envVars>>

\* the messages whose handler throws outside every try block: the catch of
\* the fileOperation handler reads data.operation of a null payload; the
\* requestFileContent handler destructures data and joins its path first
Rejects(d) ==
    \/ d.type = "fileOperation" /\ d.isNull
    \/ d.type = "requestFileContent" /\ (d.isNull \/ d.path = NoPath)

\* such a handler ends in an unhandled promise rejection: nothing is sent,
\* and whether the process exits depends on the Node.js version
HubUnhandledRejection(s, exits) ==
    /\ hubRunning
    /\ s \in clients
    /\ toHub[s] # <<>>
    /\ Rejects(Head(toHub[s]))
    /\ hubRunning' = ~exits
    /\ toHub' = [toHub EXCEPT ![s] = Tail(toHub[s])]
    /\ UNCHANGED <<hubFs, hubWatchQ, clients, walking, hubWriting, lastOp, toEdge, edgeVars, envVars>>

\* socket.on('fileOperation')
HubHandleOp(s) ==
    /\ hubRunning
    /\ s \in clients
    /\ toHub[s] # <<>>
    /\ Head(toHub[s]).type = "fileOperation"
    /\ ~Rejects(Head(toHub[s]))
    /\ LET d == Head(toHub[s])
           r == HandleClientOperation(hubFs, d)
       IN /\ Watched(r.events) # <<>> => Len(hubWatchQ) < MaxQueue
          /\ (~r.ok \/ r.chmod) => Room(toEdge, clients \cup {s})
          /\ hubFs' = r.fs
          /\ hubWatchQ' = hubWatchQ \o HubRaises(r.events, s)
          /\ toEdge' = IF ~r.ok THEN Emit(toEdge, ErrorRecipients(s), OperationError(d.operation, d.path))
                       ELSE IF r.chmod
                            THEN Emit(toEdge, ChmodRecipients(s),
                                      [FileSystemChange("chmod", d.path, "", NoContent, d.mode)
                                          EXCEPT !.origin = s])
                            ELSE toEdge
          /\ lastOp' = [data |-> d, ok |-> r.ok, again |-> lastOp.data = d]
    /\ toHub' = [toHub EXCEPT ![s] = Tail(toHub[s])]
    /\ UNCHANGED <<clients, walking, hubRunning, hubWriting, edgeVars, envVars>>

\* socket.on('fileOperation') for a write, up to its second await: socket.io
\* calls the handler of the next message while this one awaits, so the
\* fs.ensureDir and the fs.writeFile of a write are two steps between which
\* other handlers run
HubWriteBegin(s) ==
    /\ hubRunning
    /\ s \in clients
    /\ toHub[s] # <<>>
    /\ LET d == Head(toHub[s])
           mk == FsEnsureDir(hubFs, Parent(d.path))
       IN /\ d.type = "fileOperation" /\ d.operation = "write"
          /\ ~Rejects(d) /\ d.path # NoPath /\ mk.ok
          /\ Watched(mk.events) # <<>> => Len(hubWatchQ) < MaxQueue
          /\ hubFs' = mk.fs
          /\ hubWatchQ' = hubWatchQ \o HubRaises(mk.events, s)
          /\ hubWriting' = hubWriting \cup {[data |-> d, by |-> s]}
          /\ lastOp' = [data |-> d, ok |-> TRUE, again |-> lastOp.data = d]
    /\ toHub' = [toHub EXCEPT ![s] = Tail(toHub[s])]
    /\ UNCHANGED <<clients, walking, hubRunning, toEdge, edgeVars, envVars>>

\* the fs.writeFile of such a write, and the operationError of its failure
HubWriteEnd(w) ==
    /\ hubRunning
    /\ w \in hubWriting
    /\ LET wr == FsWriteFile(hubFs, w.data.path, FromBase64(w.data.content))
           ok == w.data.content # NoContent /\ wr.ok
       IN /\ Watched(wr.events) # <<>> => Len(hubWatchQ) < MaxQueue
          /\ ~ok => Room(toEdge, {w.by})
          /\ hubFs' = IF ok THEN wr.fs ELSE hubFs
          /\ hubWatchQ' = IF ok THEN hubWatchQ \o HubRaises(wr.events, w.by) ELSE hubWatchQ
          /\ toEdge' = IF ok THEN toEdge
                       ELSE Emit(toEdge, ErrorRecipients(w.by) \cap clients,
                                 OperationError(w.data.operation, w.data.path))
    /\ hubWriting' = hubWriting \ {w}
    /\ UNCHANGED <<clients, walking, hubRunning, lastOp, toHub, edgeVars, envVars>>

\* path.join(this.watchDir, filePath) follows the ".." of filePath out of the
\* watched directory: ../o is a regular file beside it that the hub can read
Outside == <<"..", "o">>
OutsideFile == FileNode(<<3>>, DefaultMode("file"))
\* what fullPath names: an entry of the tree, or the file beside it
StatAt(fs, p) == IF p \in Paths THEN fs[p] ELSE IF p = Outside THEN OutsideFile ELSE Absent

\* socket.on('requestFileContent')
HubHandleContentRequest(s) ==
    /\ hubRunning
    /\ s \in clients
    /\ toHub[s] # <<>>
    /\ Head(toHub[s]).type = "requestFileContent"
    /\ ~Rejects(Head(toHub[s]))
    /\ Room(toEdge, {s})
    /\ LET p == Head(toHub[s]).path
       IN toEdge' = IF StatAt(hubFs, p).kind = "file"
                    THEN Emit(toEdge, {s}, FileContent(p, ToBase64(StatAt(hubFs, p).content)))
                    ELSE Emit(toEdge, ErrorRecipients(s), OperationError("requestFileContent", p))
    /\ toHub' = [toHub EXCEPT ![s] = Tail(toHub[s])]
    /\ UNCHANGED <<hubVars, edgeVars, envVars>>

\* if (!relativePath && relativePath !== ''): relativePath is a string, and
\* the only string !relativePath accepts is the empty one
HubIgnoresRoot(p) == p = Root /\ p # Root
\* if (!relativePath)
EdgeIgnoresRoot(p) == p = Root

\* the hub's watcher delivers an event: handleFileChange, io.emit to all
HubWatcherDeliver ==
    /\ hubRunning
    /\ hubWatchQ # <<>>
    /\ Room(toEdge, clients)
    /\ toEdge' = IF HubIgnoresRoot(Head(hubWatchQ).path) THEN toEdge
                 ELSE Emit(toEdge, clients, [HandleFileChange(hubFs, Head(hubWatchQ))
                                                EXCEPT !.origin = Head(hubWatchQ).by])
    /\ hubWatchQ' = Tail(hubWatchQ)
    /\ UNCHANGED <<hubFs, clients, walking, hubRunning, hubWriting, lastOp, toHub, edgeVars, envVars>>

(***************************************************************************)
(* Bare sessions: socket.io clients that submit any operation.             *)
(***************************************************************************)
OpPaths == {<<"a">>, <<"b">>, <<"a", "b">>}
SessionOps ==
    {FileOperation("write", p, ToBase64(c), NoPath, NoMode) : p \in OpPaths, c \in Contents}
    \cup {FileOperation(o, p, NoContent, NoPath, NoMode) : o \in {"delete", "mkdir"}, p \in OpPaths}
    \cup {FileOperation("rename", p, NoContent, q, NoMode) :
             p \in OpPaths, q \in {r \in OpPaths : Len(r) = 1}}
    \cup {FileOperation("chmod", p, NoContent, NoPath, 384) : p \in OpPaths}
    \cup {FileOperation("touch", <<"a">>, NoContent, NoPath, NoMode)}
\* payloads that are not what the protocol prescribes
Malformed ==
    {NullPayload("fileOperation"), NullPayload("requestFileContent"), RequestFileContent(NoPath),
     FileOperation("delete", NoPath, NoContent, NoPath, NoMode)}
SessionMessages ==
    SessionOps \cup {RequestFileContent(p) : p \in OpPaths \cup {Outside}} \cup Malformed

SessionSubmit(s, op) ==
    /\ s \in clients
    /\ opsLeft > 0
    /\ opsLeft' = opsLeft - 1
    /\ toHub' = [toHub EXCEPT ![s] = Append(toHub[s], op)]
    /\ UNCHANGED <<hubVars, toEdge, edgeVars, mutationsLeft, dropsLeft, snap>>

SessionReceive(s) ==
    /\ toEdge[s] # <<>>
    /\ toEdge' = [toEdge EXCEPT ![s] = Tail(toEdge[s])]
    /\ UNCHANGED <<hubVars, toHub, edgeVars, envVars>>

(***************************************************************************)
(* The edge: FileSystemClient.                                             *)
(***************************************************************************)
NumEdges == 1
Edges == 1..NumEdges

Key(name, p) == <<name, p>>

\* the fixed order in which the model lists a directory where the order of
\* the listing does not matter
SomeOrder == CHOOSE o \in Orders : TRUE

\* cacheFileModes(): stat.mode & 0o777 of every listed entry
CacheFileModes(fs, fm) ==
    [p \in Paths |-> IF p \in ItemPaths(GetLocalFiles(fs, SomeOrder)) THEN fs[p].mode ELSE fm[p]]

\* syncWithServer, first loop: fs.remove of every local item whose path the
\* hub's list does not hold
RECURSIVE SyncDelete(_, _, _)
SyncDelete(st, locals, serverPaths) ==
    IF locals = <<>> THEN st
    ELSE IF Head(locals).path \in serverPaths THEN SyncDelete(st, Tail(locals), serverPaths)
    ELSE LET rm == FsRemove(st.fs, Head(locals).path)
         IN SyncDelete([st EXCEPT !.fs = rm.fs, !.events = st.events \o rm.events],
                       Tail(locals), serverPaths)

\* syncWithServer, second loop: ensureDir of the hub's directories (a throw
\* ends the loop with the key still registered), a content request for each
\* of the hub's files (its key stays registered)
SyncFileKey(p) == Key("write", p)
RECURSIVE SyncCreate(_, _)
SyncCreate(st, files) ==
    IF files = <<>> \/ ~st.ok THEN st
    ELSE LET f == Head(files)
             mk == FsEnsureDir(st.fs, f.path)
         IN IF f.type = "directory"
            THEN IF mk.ok
                 THEN SyncCreate([st EXCEPT !.fs = mk.fs, !.events = st.events \o mk.events],
                                 Tail(files))
                 ELSE [st EXCEPT !.ok = FALSE, !.keys = st.keys \cup {Key("mkdir", f.path)}]
            ELSE SyncCreate([st EXCEPT !.keys = st.keys \cup {SyncFileKey(f.path)},
                                       !.requests = Append(st.requests, f.path)],
                            Tail(files))

SyncWithServer(fs, files, order) ==
    LET st0 == [ok |-> TRUE, fs |-> fs, events |-> <<>>, keys |-> {}, requests |-> <<>>]
    IN SyncCreate(SyncDelete(st0, GetLocalFiles(fs, order), ItemPaths(files)), files)

\* handleLocalChange(event, filePath) past its guards: the messages it emits
\* and the mode cache afterwards; a failed readFile or stat emits nothing
LocalChange(msgs, fm) == [msgs |-> msgs, fm |-> fm]
HandleLocalChange(fs, fm, ev) ==
    LET p == ev.path
        chmod == FileOperation("chmod", p, NoContent, NoPath, fs[p].mode)
    IN CASE ev.event \in {"add", "change"} ->
               IF fs[p].kind # "file" THEN LocalChange(<<>>, fm)
               ELSE LocalChange((IF fm[p] # fs[p].mode THEN <<chmod>> ELSE <<>>)
                                \o <<FileOperation("write", p, ToBase64(fs[p].content), NoPath, NoMode)>>,
                                [fm EXCEPT ![p] = fs[p].mode])
         [] ev.event \in {"unlink", "unlinkDir"} ->
               LocalChange(<<FileOperation("delete", p, NoContent, NoPath, NoMode)>>,
                           [fm EXCEPT ![p] = NoMode])
         [] ev.event = "addDir" ->
               IF fs[p].kind = "none" THEN LocalChange(<<>>, fm)
               ELSE LocalChange(<<chmod, FileOperation("mkdir", p, NoContent, NoPath, NoMode)>>,
                                [fm EXCEPT ![p] = fs[p].mode])
         [] OTHER -> LocalChange(<<>>, fm)

\* handleServerChange(data): the fs call of the switch; its errors are caught
HandleServerChange(fs, m) ==
    CASE m.event \in {"add", "change"} ->
            LET mk == FsEnsureDir(fs, Parent(m.path))
                wr == FsWriteFile(mk.fs, m.path, FromBase64(m.content))
            IN IF m.content = NoContent \/ ~mk.ok THEN FsResult(FALSE, fs, <<>>)
               ELSE IF ~wr.ok THEN FsResult(FALSE, mk.fs, mk.events)
               ELSE FsResult(TRUE, wr.fs, mk.events \o wr.events)
      [] m.event \in {"unlink", "unlinkDir"} -> FsRemove(fs, m.path)
      [] m.event = "addDir" -> FsEnsureDir(fs, m.path)
      [] OTHER -> FsResult(TRUE, fs, <<>>)

\* what the edge's watcher raises for the raw events of a change of its tree
\* History: src tells who changed the tree ("user", "sync", "content", "apply")
\* and fresh that an "apply" change was made less than 500 ms ago.
EdgeRaises(e, events, src) ==
    IF watcher[e] = "ready"
    THEN [i \in 1..Len(Watched(events)) |->
             [event |-> Watched(events)[i].event, path |-> Watched(events)[i].path,
              src |-> src, fresh |-> src = "apply"]]
    ELSE <<>>
EdgeWatchRoom(e, events) == EdgeRaises(e, events, "") # <<>> => Len(edgeWatchQ[e]) < MaxQueue

\* socket.on('fileSystemState'): syncWithServer, then the watcher is set up
EdgeRecvState(e, order) ==
    /\ toEdge[e] # <<>>
    /\ Head(toEdge[e]).type = "fileSystemState"
    /\ Len(toHub[e]) < MaxQueue
    /\ LET r == SyncWithServer(edgeFs[e], Head(toEdge[e]).files, order)
       IN /\ edgeFs' = [edgeFs EXCEPT ![e] = r.fs]
          /\ activeOperations' = [activeOperations EXCEPT ![e] = @ \cup r.keys]
          /\ toHub' = [toHub EXCEPT ![e] =
                          @ \o [i \in 1..Len(r.requests) |-> RequestFileContent(r.requests[i])]]
          /\ IF r.ok
             THEN /\ isInitialSync' = [isInitialSync EXCEPT ![e] = FALSE]
                  /\ watcher' = [watcher EXCEPT ![e] = "starting"]
                  /\ edgeWatchQ' = [edgeWatchQ EXCEPT ![e] = <<>>]
                  /\ fileModes' = [fileModes EXCEPT ![e] = CacheFileModes(r.fs, @)]
                  /\ edgePhase' = [edgePhase EXCEPT ![e] = "synced"]
             ELSE /\ isInitialSync' = [isInitialSync EXCEPT ![e] = TRUE]
                  /\ edgeWatchQ' = [edgeWatchQ EXCEPT ![e] = @ \o EdgeRaises(e, r.events, "sync")]
                  /\ edgePhase' = [edgePhase EXCEPT ![e] = "failed"]
                  /\ UNCHANGED <<watcher, fileModes>>
    /\ toEdge' = [toEdge EXCEPT ![e] = Tail(toEdge[e])]
    /\ UNCHANGED <<hubVars, timers, applying, pollTimers, envVars>>

\* the watcher's 'ready': cacheFileModes (and the mode poll starts)
EdgeWatcherReady(e) ==
    /\ watcher[e] = "starting"
    /\ watcher' = [watcher EXCEPT ![e] = "ready"]
    /\ fileModes' = [fileModes EXCEPT ![e] = CacheFileModes(edgeFs[e], @)]
    /\ pollTimers' = [pollTimers EXCEPT ![e] = @ + 1]
    /\ UNCHANGED <<hubVars, netVars, edgeFs, edgeWatchQ, isInitialSync, activeOperations,
                   timers, applying, edgePhase, envVars>>

\* socket.on('fileContent'): the bytes are written under the key write-<path>,
\* which the finally releases
EdgeRecvFileContent(e) ==
    /\ toEdge[e] # <<>>
    /\ Head(toEdge[e]).type = "fileContent"
    /\ LET m == Head(toEdge[e])
           mk == FsEnsureDir(edgeFs[e], Parent(m.path))
           wr == FsWriteFile(mk.fs, m.path, FromBase64(m.content))
           r == IF ~mk.ok THEN mk ELSE IF ~wr.ok THEN FsResult(FALSE, mk.fs, mk.events)
                ELSE FsResult(TRUE, wr.fs, mk.events \o wr.events)
       IN /\ EdgeWatchRoom(e, r.events)
          /\ edgeFs' = [edgeFs EXCEPT ![e] = r.fs]
          /\ edgeWatchQ' = [edgeWatchQ EXCEPT ![e] = @ \o EdgeRaises(e, r.events, "content")]
          /\ activeOperations' = [activeOperations EXCEPT ![e] = @ \ {Key("write", m.path)}]
    /\ toEdge' = [toEdge EXCEPT ![e] = Tail(toEdge[e])]
    /\ UNCHANGED <<hubVars, toHub, watcher, isInitialSync, timers, applying, fileModes,
                   edgePhase, pollTimers, envVars>>

\* socket.on('operationError'): logged
EdgeRecvError(e) ==
    /\ toEdge[e] # <<>>
    /\ Head(toEdge[e]).type = "operationError"
    /\ toEdge' = [toEdge EXCEPT ![e] = Tail(toEdge[e])]
    /\ UNCHANGED <<hubVars, toHub, edgeVars, envVars>>

\* socket.on('fileSystemChange') for an event whose key is registered
EdgeIgnoreChange(e) ==
    /\ toEdge[e] # <<>>
    /\ Head(toEdge[e]).type = "fileSystemChange"
    /\ Key(Head(toEdge[e]).event, Head(toEdge[e]).path) \in activeOperations[e]
    /\ toEdge' = [toEdge EXCEPT ![e] = Tail(toEdge[e])]
    /\ UNCHANGED <<hubVars, toHub, edgeVars, envVars>>

\* socket.on('fileSystemChange') for a chmod with a mode: applyChmod
EdgeApplyChmod(e) ==
    /\ toEdge[e] # <<>>
    /\ LET m == Head(toEdge[e])
           ch == FsChmod(edgeFs[e], m.path, m.mode)
       IN /\ m.type = "fileSystemChange"
          /\ Key(m.event, m.path) \notin activeOperations[e]
          /\ m.event = "chmod" /\ m.mode # NoMode /\ m.mode # 0
          /\ edgeFs' = [edgeFs EXCEPT ![e] = ch.fs]
          /\ fileModes' = [fileModes EXCEPT ![e] = IF ch.ok THEN [@ EXCEPT ![m.path] = m.mode] ELSE @]
    /\ toEdge' = [toEdge EXCEPT ![e] = Tail(toEdge[e])]
    /\ UNCHANGED <<hubVars, toHub, edgeWatchQ, watcher, isInitialSync, activeOperations,
                   timers, applying, edgePhase, pollTimers, envVars>>

\* socket.on('fileSystemChange') otherwise: handleServerChange registers the
\* key and makes its fs call
EdgeApplyBegin(e) ==
    /\ toEdge[e] # <<>>
    /\ LET m == Head(toEdge[e])
           k == Key(m.event, m.path)
           r == HandleServerChange(edgeFs[e], m)
       IN /\ m.type = "fileSystemChange"
          /\ k \notin activeOperations[e]
          /\ ~(m.event = "chmod" /\ m.mode # NoMode /\ m.mode # 0)
          /\ EdgeWatchRoom(e, r.events)
          /\ activeOperations' = [activeOperations EXCEPT ![e] = @ \cup {k}]
          /\ applying' = [applying EXCEPT ![e] = @ \cup {k}]
          /\ edgeFs' = [edgeFs EXCEPT ![e] = r.fs]
          /\ edgeWatchQ' = [edgeWatchQ EXCEPT ![e] = @ \o EdgeRaises(e, r.events, "apply")]
    /\ toEdge' = [toEdge EXCEPT ![e] = Tail(toEdge[e])]
    /\ UNCHANGED <<hubVars, toHub, watcher, isInitialSync, timers, fileModes, edgePhase, pollTimers, envVars>>

\* handleServerChange, its finally: the key is released when the fs call returns
ReleasedAtEnd(k) == {k}
EdgeApplyEnd(e, k) ==
    /\ k \in applying[e]
    /\ applying' = [applying EXCEPT ![e] = @ \ {k}]
    /\ activeOperations' = [activeOperations EXCEPT ![e] = @ \ ReleasedAtEnd(k)]
    /\ UNCHANGED <<hubVars, netVars, edgeFs, edgeWatchQ, watcher, isInitialSync, timers,
                   fileModes, edgePhase, pollTimers, envVars>>

\* the edge's watcher delivers an event: handleLocalChange
EdgeWatcherDeliver(e) ==
    /\ edgeWatchQ[e] # <<>>
    /\ LET ev == Head(edgeWatchQ[e])
           k == Key(ev.event, ev.path)
           r == HandleLocalChange(edgeFs[e], fileModes[e], ev)
       IN IF isInitialSync[e] \/ EdgeIgnoresRoot(ev.path) \/ k \in activeOperations[e]
          THEN UNCHANGED <<toHub, activeOperations, timers, fileModes>>
          ELSE /\ Len(toHub[e]) < MaxQueue
               /\ toHub' = [toHub EXCEPT ![e] = @ \o r.msgs]
               /\ fileModes' = [fileModes EXCEPT ![e] = r.fm]
               /\ activeOperations' = [activeOperations EXCEPT ![e] = @ \cup {k}]
               /\ timers' = [timers EXCEPT ![e] = @ \cup {k}]
    /\ edgeWatchQ' = [edgeWatchQ EXCEPT ![e] = Tail(edgeWatchQ[e])]
    /\ UNCHANGED <<hubVars, toEdge, edgeFs, watcher, isInitialSync, applying, edgePhase, pollTimers, envVars>>

\* setTimeout(() => this.activeOperations.delete(operationKey), 500) fires
EdgeTimerFire(e, k) ==
    /\ k \in timers[e]
    /\ timers' = [timers EXCEPT ![e] = @ \ {k}]
    /\ activeOperations' = [activeOperations EXCEPT ![e] = @ \ {k}]
    /\ UNCHANGED <<hubVars, netVars, edgeFs, edgeWatchQ, watcher, isInitialSync, applying,
                   fileModes, edgePhase, pollTimers, envVars>>

\* startModePolling(), one tick of its setInterval(..., 2000): a chmod
\* operation for every listed entry whose mode differs from the cached one.
\* Nothing clears the interval, so it ticks whatever becomes of the watcher.
RECURSIVE ModePoll(_, _, _)
ModePoll(fs, st, files) ==
    IF files = <<>> THEN st
    ELSE LET p == Head(files).path
         IN IF st.fm[p] # fs[p].mode
            THEN ModePoll(fs, LocalChange(Append(st.msgs, FileOperation("chmod", p, NoContent,
                                                                        NoPath, fs[p].mode)),
                                          [st.fm EXCEPT ![p] = fs[p].mode]),
                          Tail(files))
            ELSE ModePoll(fs, st, Tail(files))

EdgeModePoll(e, order) ==
    /\ pollTimers[e] > 0
    /\ Len(toHub[e]) < MaxQueue
    /\ LET r == ModePoll(edgeFs[e], LocalChange(<<>>, fileModes[e]), GetLocalFiles(edgeFs[e], order))
       IN /\ r.msgs # <<>>
          /\ toHub' = [toHub EXCEPT ![e] = @ \o r.msgs]
          /\ fileModes' = [fileModes EXCEPT ![e] = r.fm]
    /\ UNCHANGED <<hubVars, toEdge, edgeFs, edgeWatchQ, watcher, isInitialSync, activeOperations,
                   timers, applying, edgePhase, pollTimers, envVars>>

\* 500 ms have passed since the edge made the change that raised event i
GraceElapse(e, i) ==
    /\ i \in 1..Len(edgeWatchQ[e])
    /\ edgeWatchQ[e][i].fresh
    /\ edgeWatchQ' = [edgeWatchQ EXCEPT ![e][i].fresh = FALSE]
    /\ UNCHANGED <<hubVars, netVars, edgeFs, watcher, isInitialSync, activeOperations,
                   timers, applying, fileModes, edgePhase, pollTimers, envVars>>

(***************************************************************************)
(* Users: mutations of a replica's tree made outside the protocol.         *)
(***************************************************************************)
\* what a user does to a tree: write a file, make a directory, chmod 600 or
\* chmod 000 (which no watcher reports), rm -rf
UserChange(fs, kind, p, c) ==
    CASE kind = "write" -> FsWriteFile(fs, p, c)
      [] kind = "mkdir" -> IF KindAt(fs, Parent(p)) = "dir" THEN FsEnsureDir(fs, p) ELSE FsFail(fs)
      [] kind = "chmod" -> FsChmod(fs, p, 384)
      [] kind = "chmod000" -> FsChmod(fs, p, 0)
      [] OTHER -> FsRemove(fs, p)
UserKinds == {"write", "mkdir", "chmod", "remove"}

HubUserMutate(kind, p, c) ==
    /\ mutationsLeft > 0
    /\ LET r == UserChange(hubFs, kind, p, c)
       IN /\ r.ok /\ r.fs # hubFs
          /\ Watched(r.events) # <<>> => Len(hubWatchQ) < MaxQueue
          /\ hubFs' = r.fs
          /\ hubWatchQ' = hubWatchQ \o HubRaises(r.events, 0)
    /\ mutationsLeft' = mutationsLeft - 1
    /\ lastOp' = NoOp
    /\ UNCHANGED <<clients, walking, hubRunning, hubWriting, netVars, edgeVars, opsLeft, dropsLeft, snap>>

\* an edge is in Steady once its state handler has completed and its
\* watcher is ready
Steady(e) == edgePhase[e] = "synced" /\ watcher[e] = "ready" /\ ~isInitialSync[e]

EdgeUserMutate(e, kind, p, c) ==
    /\ mutationsLeft > 0
    /\ Steady(e)
    /\ LET r == UserChange(edgeFs[e], kind, p, c)
       IN /\ r.ok /\ r.fs # edgeFs[e]
          /\ EdgeWatchRoom(e, r.events)
          /\ edgeFs' = [edgeFs EXCEPT ![e] = r.fs]
          /\ edgeWatchQ' = [edgeWatchQ EXCEPT ![e] = @ \o EdgeRaises(e, r.events, "user")]
    /\ mutationsLeft' = mutationsLeft - 1
    /\ UNCHANGED <<hubVars, netVars, watcher, isInitialSync, activeOperations, timers,
                   applying, fileModes, edgePhase, pollTimers, opsLeft, dropsLeft, snap>>

\* a user removes the directory the hub watches
HubRootRemoved ==
    /\ mutationsLeft > 0
    /\ LET r == FsRemove(hubFs, Root)
       IN /\ Len(hubWatchQ) < MaxQueue
          /\ hubFs' = r.fs
          /\ hubWatchQ' = hubWatchQ \o HubRaises(r.events, 0)
    /\ mutationsLeft' = mutationsLeft - 1
    /\ lastOp' = NoOp
    /\ UNCHANGED <<clients, walking, hubRunning, hubWriting, netVars, edgeVars, opsLeft, dropsLeft, snap>>

\* a user removes the directory an edge in Steady watches
EdgeRootRemoved(e) ==
    /\ mutationsLeft > 0
    /\ Steady(e)
    /\ LET r == FsRemove(edgeFs[e], Root)
       IN /\ Len(edgeWatchQ[e]) < MaxQueue
          /\ edgeFs' = [edgeFs EXCEPT ![e] = r.fs]
          /\ edgeWatchQ' = [edgeWatchQ EXCEPT ![e] = @ \o EdgeRaises(e, r.events, "user")]
    /\ mutationsLeft' = mutationsLeft - 1
    /\ UNCHANGED <<hubVars, netVars, watcher, isInitialSync, activeOperations, timers,
                   applying, fileModes, edgePhase, pollTimers, opsLeft, dropsLeft, snap>>

(***************************************************************************)
(* Initial states.                                                         *)
(***************************************************************************)
\* the trees of at most k entries under the paths P, files holding content c
Extensions(t, P, c) ==
    {[t EXCEPT ![p] = n] :
        p \in {q \in P : t[q].kind = "none" /\ KindAt(t, Parent(q)) = "dir"},
        n \in {FileNode(c, DefaultMode("file")), DirNode(DefaultMode("dir"))}}
RECURSIVE TreesUpTo(_, _, _)
TreesUpTo(k, P, c) ==
    IF k = 0 THEN {EmptyFs}
    ELSE LET T == TreesUpTo(k - 1, P, c)
         IN T \cup UNION {Extensions(t, P, c) : t \in T}

FirstContent == <<1>>

InitHubState ==
    /\ hubWatchQ = <<>>
    /\ clients = {}
    /\ walking = {}
    /\ hubRunning = TRUE /\ hubWriting = {}
    /\ lastOp = NoOp
InitNet ==
    /\ toHub = [s \in Sessions |-> <<>>]
    /\ toEdge = [s \in Sessions |-> <<>>]
\* the state of an edge after its constructor
InitEdgeState ==
    /\ edgeWatchQ = [s \in Sessions |-> <<>>]
    /\ watcher = [s \in Sessions |-> "none"]
    /\ isInitialSync = [s \in Sessions |-> TRUE]
    /\ activeOperations = [s \in Sessions |-> {}]
    /\ timers = [s \in Sessions |-> {}]
    /\ applying = [s \in Sessions |-> {}]
    /\ fileModes = [s \in Sessions |-> [p \in Paths |-> NoMode]]
    /\ edgePhase = [s \in Sessions |-> "idle"]
    /\ pollTimers = [s \in Sessions |-> 0]

(***************************************************************************)
(* SpecSnapshot: the snapshot builders on every tree of up to MaxEntries   *)
(* entries, under every listing order.                                     *)
(***************************************************************************)
InitSnapshot ==
    /\ hubFs \in TreesUpTo(MaxEntries, Paths, FirstContent)
    /\ edgeFs = [s \in Sessions |-> hubFs]
    /\ InitHubState /\ InitNet /\ InitEdgeState
    /\ opsLeft = 0 /\ mutationsLeft = 0 /\ dropsLeft = 0
    /\ snap = <<>>

TakeHubSnapshot(order) ==
    /\ snap' = GetFileSystemState(hubFs, order)
    /\ UNCHANGED <<hubVars, netVars, edgeVars, opsLeft, mutationsLeft, dropsLeft>>

TakeEdgeSnapshot(e, order) ==
    /\ snap' = GetLocalFiles(edgeFs[e], order)
    /\ UNCHANGED <<hubVars, netVars, edgeVars, opsLeft, mutationsLeft, dropsLeft>>

NextSnapshot ==
    \/ \E o \in Orders : TakeHubSnapshot(o)
    \/ \E e \in Edges, o \in Orders : TakeEdgeSnapshot(e, o)

SpecSnapshot == InitSnapshot /\ [][NextSnapshot]_vars

(***************************************************************************)
(* SpecHub: the hub serving bare sessions.                                 *)
(***************************************************************************)
MaxInitEntries == 2

InitHub ==
    /\ hubFs \in TreesUpTo(MaxInitEntries, OpPaths, FirstContent)
    /\ edgeFs = [s \in Sessions |-> EmptyFs]
    /\ InitHubState /\ InitNet /\ InitEdgeState
    /\ opsLeft = MaxOps /\ mutationsLeft = 0 /\ dropsLeft = 0
    /\ snap = <<>>

\* a bare session takes a message off its socket as soon as it is sent
Drained == \A s \in Sessions : toEdge[s] = <<>>

HubStep ==
    \/ \E s \in Sessions : HubConnection(s)
    \/ \E s \in Sessions : HubSendState(s, SomeOrder)
    \/ \E s \in Sessions : HubDisconnect(s)
    \/ \E s \in Sessions : HubHandleOp(s)
    \/ \E s \in Sessions : HubHandleContentRequest(s)
    \/ \E s \in Sessions, exits \in BOOLEAN : HubUnhandledRejection(s, exits)
    \/ HubWatcherDeliver
    \/ \E s \in Sessions, op \in SessionMessages : SessionSubmit(s, op)

NextHub ==
    \/ Drained /\ HubStep
    \/ \E s \in Sessions : SessionReceive(s)

SpecHub == InitHub /\ [][NextHub]_vars

(***************************************************************************)
(* SpecRace: the hub serving bare sessions that write, delete and make     *)
(* directories, the awaits of a write taken one at a time.                 *)
(***************************************************************************)
RaceOps ==
    {FileOperation("write", p, ToBase64(FirstContent), NoPath, NoMode) : p \in {<<"a">>, <<"a", "b">>}}
    \cup {FileOperation(o, <<"a">>, NoContent, NoPath, NoMode) : o \in {"delete", "mkdir"}}

NextRace ==
    \/ /\ Drained
       /\ \/ \E s \in Sessions : HubConnection(s)
          \/ \E s \in Sessions : HubSendState(s, SomeOrder)
          \/ \E s \in Sessions : HubHandleOp(s)
          \/ \E s \in Sessions : HubWriteBegin(s)
          \/ \E w \in hubWriting : HubWriteEnd(w)
          \/ HubWatcherDeliver
          \/ \E s \in Sessions, op \in RaceOps : SessionSubmit(s, op)
    \/ \E s \in Sessions : SessionReceive(s)

SpecRace == InitHub /\ [][NextRace]_vars

(***************************************************************************)
(* SpecSync: edges join a hub; nobody touches the trees.                   *)
(* Spec: the whole system, with users changing the trees.                  *)
(***************************************************************************)
SysPaths == {<<"a">>, <<"a", "b">>, <<".h">>}

InitSync ==
    /\ hubFs \in TreesUpTo(MaxInitEntries, SysPaths, FirstContent)
    /\ edgeFs \in [Sessions -> TreesUpTo(MaxInitEntries, SysPaths, <<2, 2>>)]
    /\ \A s \in Sessions \ Edges : edgeFs[s] = EmptyFs
    /\ InitHubState /\ InitNet /\ InitEdgeState
    /\ opsLeft = 0 /\ mutationsLeft = 0 /\ dropsLeft = 0
    /\ snap = <<>>

JoinSteps ==
    \/ \E e \in Edges : HubConnection(e)
    \/ \E e \in Edges, o \in Orders : HubSendState(e, o)
    \/ \E e \in Edges : HubHandleContentRequest(e)
    \/ \E e \in Edges, o \in Orders : EdgeRecvState(e, o)
    \/ \E e \in Edges : EdgeWatcherReady(e)
    \/ \E e \in Edges : EdgeRecvFileContent(e)

SteadySteps ==
    \/ \E e \in Edges : HubHandleOp(e)
    \/ HubWatcherDeliver
    \/ \E e \in Edges : EdgeIgnoreChange(e)
    \/ \E e \in Edges : EdgeApplyChmod(e)
    \/ \E e \in Edges : EdgeApplyBegin(e)
    \/ \E e \in Edges : \E k \in applying[e] : EdgeApplyEnd(e, k)
    \/ \E e \in Edges : EdgeWatcherDeliver(e)
    \/ \E e \in Edges : \E k \in timers[e] : EdgeTimerFire(e, k)
    \/ \E e \in Edges : \E i \in 1..Len(edgeWatchQ[e]) : GraceElapse(e, i)
    \/ \E e \in Edges, o \in Orders : EdgeModePoll(e, o)

ErrorSteps == \E e \in Edges : EdgeRecvError(e)

UserSteps(P) ==
    \/ \E k \in UserKinds, p \in P, c \in Contents : HubUserMutate(k, p, c)
    \/ \E e \in Edges, k \in UserKinds, p \in P, c \in Contents : EdgeUserMutate(e, k, p, c)

NextSync == JoinSteps \/ SteadySteps

SpecSync == InitSync /\ [][NextSync]_vars

\* the event loop runs every handler whose message, event or timer is due
SpecSyncFair == SpecSync /\ WF_vars(NextSync)

Init ==
    /\ hubFs \in TreesUpTo(1, {<<"a">>, <<".h">>}, FirstContent)
    /\ edgeFs \in [Sessions -> TreesUpTo(1, {<<"a">>, <<".h">>}, FirstContent)]
    /\ \A s \in Sessions \ Edges : edgeFs[s] = EmptyFs
    /\ InitHubState /\ InitNet /\ InitEdgeState
    /\ opsLeft = 0 /\ mutationsLeft = MaxMutations /\ dropsLeft = 0
    /\ snap = <<>>

Next == JoinSteps \/ SteadySteps \/ ErrorSteps \/ UserSteps(SysPaths)

Spec == Init /\ [][Next]_vars

(***************************************************************************)
(* SpecSteady: MaxEdits changes of one file, from the state in which an    *)
(* edge that joined a hub holding the file has settled.                    *)
(***************************************************************************)
MaxEdits == 2
TheFile == <<"a">>
SettledFs == [EmptyFs EXCEPT ![TheFile] = FileNode(FirstContent, DefaultMode("file"))]

\* the state after the join: both trees hold the file, the edge is in Steady
Settled ==
    /\ hubFs = SettledFs
    /\ edgeFs = [s \in Sessions |-> IF s \in Edges THEN SettledFs ELSE EmptyFs]
    /\ hubWatchQ = <<>> /\ clients = Edges /\ walking = {} /\ hubRunning = TRUE /\ hubWriting = {}
    /\ InitNet
    /\ edgeWatchQ = [s \in Sessions |-> <<>>]
    /\ watcher = [s \in Sessions |-> IF s \in Edges THEN "ready" ELSE "none"]
    /\ isInitialSync = [s \in Sessions |-> s \notin Edges]
    /\ activeOperations = [s \in Sessions |-> {}]
    /\ timers = [s \in Sessions |-> {}]
    /\ applying = [s \in Sessions |-> {}]
    /\ fileModes = [s \in Sessions |->
                       [p \in Paths |-> IF s \in Edges /\ p = TheFile
                                        THEN DefaultMode("file") ELSE NoMode]]
    /\ edgePhase = [s \in Sessions |-> IF s \in Edges THEN "synced" ELSE "idle"]
    /\ pollTimers = [s \in Sessions |-> IF s \in Edges THEN 1 ELSE 0]

InitSteady ==
    /\ Settled
    /\ lastOp = NoOp
    /\ opsLeft = 0 /\ mutationsLeft = MaxEdits /\ dropsLeft = 0
    /\ snap = <<>>

NextSteady == SteadySteps \/ UserSteps({TheFile})

SpecSteady == InitSteady /\ [][NextSteady]_vars

\* SpecRoot: the same, and a user may remove a watched directory itself
NextRoot ==
    \/ SteadySteps
    \/ UserSteps({TheFile})
    \/ HubRootRemoved
    \/ \E e \in Edges : EdgeRootRemoved(e)

SpecRoot == InitSteady /\ [][NextRoot]_vars

(***************************************************************************)
(* SpecModes: from the same state, the edge's user changes the mode of the *)
(* file while the hub's user removes and rewrites it.                      *)
(***************************************************************************)
MaxModeEdits == 4

InitModes ==
    /\ Settled
    /\ lastOp = NoOp
    /\ opsLeft = 0 /\ mutationsLeft = MaxModeEdits /\ dropsLeft = 0
    /\ snap = <<>>

NextModes ==
    \/ SteadySteps
    \/ \E k \in {"remove", "write"} : HubUserMutate(k, TheFile, FirstContent)
    \/ \E e \in Edges : EdgeUserMutate(e, "chmod", TheFile, FirstContent)

SpecModes == InitModes /\ [][NextModes]_vars

(***************************************************************************)
(* SpecReconnect: from the same state, the transport of the edge drops and *)
(* socket.io reconnects it, while users change the file.                   *)
(***************************************************************************)
MaxDrops == 1

InitReconnect ==
    /\ Settled
    /\ lastOp = NoOp
    /\ opsLeft = 0 /\ mutationsLeft = MaxMutations /\ dropsLeft = MaxDrops
    /\ snap = <<>>

\* the transport of an edge drops: the hub's socket.on('disconnect') runs, the
\* edge's logs, and socket.io will reconnect; what was in flight is lost
TransportDrop(e) ==
    /\ dropsLeft > 0
    /\ e \in clients
    /\ clients' = clients \ {e}
    /\ walking' = walking \ {e}
    /\ toHub' = [toHub EXCEPT ![e] = <<>>]
    /\ toEdge' = [toEdge EXCEPT ![e] = <<>>]
    /\ dropsLeft' = dropsLeft - 1
    /\ UNCHANGED <<hubFs, hubWatchQ, hubRunning, hubWriting, lastOp, edgeVars, opsLeft, mutationsLeft, snap>>

NextReconnect ==
    \/ JoinSteps
    \/ SteadySteps
    \/ ErrorSteps
    \/ UserSteps({TheFile})
    \/ \E e \in Edges : TransportDrop(e)

SpecReconnect == InitReconnect /\ [][NextReconnect]_vars

(***************************************************************************)
(* SpecChmod: from the same state, the changes of SpecSteady and the edge's *)
(* user taking every permission off the file.                              *)
(***************************************************************************)
NextChmod ==
    \/ SteadySteps
    \/ UserSteps({TheFile})
    \/ \E e \in Edges : EdgeUserMutate(e, "chmod000", TheFile, FirstContent)

SpecChmod == InitSteady /\ [][NextChmod]_vars

(***************************************************************************)
(* Properties.                                                             *)
(***************************************************************************)
\* the edges that have joined and are live
Connected(e) == e \in clients /\ Steady(e)

\* the files and directories two trees hold outside hidden paths are the same
SameTree(f, g) ==
    \A p \in Paths : ~IsHidden(p) =>
        /\ f[p].kind = g[p].kind
        /\ f[p].kind = "file" => f[p].content = g[p].content

\* nothing is in flight, no handler or timer is pending and the mode poll
\* has nothing to report
Quiescent ==
    /\ hubWatchQ = <<>> /\ walking = {}
    /\ \A e \in Edges :
          /\ toHub[e] = <<>> /\ toEdge[e] = <<>> /\ edgeWatchQ[e] = <<>>
          /\ timers[e] = {} /\ applying[e] = {}
          /\ ModePoll(edgeFs[e], LocalChange(<<>>, fileModes[e]),
                      GetLocalFiles(edgeFs[e], SomeOrder)).msgs = <<>>

\* the fileOperation messages of a queue
FileOps(q) == SelectSeq(q, LAMBDA m : m.type = "fileOperation")
WriteOps(q, p) == SelectSeq(q, LAMBDA m : m.type = "fileOperation" /\ m.operation = "write" /\ m.path = p)

\* the step is a delivery of the first event of the edge's watcher
Delivers(e) == edgeWatchQ[e] # <<>> /\ edgeWatchQ'[e] = Tail(edgeWatchQ[e]) /\ edgeFs' = edgeFs

\* C1: after mutations of the hub's tree and of the tree of an edge in
\* Steady, once the system is quiescent every connected edge holds the hub's
\* entries (path and kind) and the hub's bytes in every file.
C1_Convergence ==
    Quiescent => \A e \in Edges : Connected(e) => SameTree(edgeFs[e], hubFs)

\* C2: when an edge in Steady has applied a hub broadcast through
\* handleServerChange and its watcher delivers the event of that change less
\* than 500 ms after the apply, handleLocalChange sends no fileOperation.
C2_NoLoop ==
    [][\A e \in Edges :
          (Delivers(e) /\ Steady(e) /\ Head(edgeWatchQ[e]).src = "apply" /\ Head(edgeWatchQ[e]).fresh)
             => FileOps(toHub'[e]) = FileOps(toHub[e])]_vars

\* C3: (a) an edge in Steady that observes a write a user made to P sends one
\* write operation for the event; (b) the hub's broadcast of a change goes to
\* every connected session; (c) when the broadcast of the write the edge sent
\* for P comes back to it while the key its handleLocalChange registered for
\* a write to P is still registered, the edge neither applies it nor sends
\* anything.
C3_OwnWriteNotReapplied ==
    [][\A e \in Edges :
          /\ (Delivers(e) /\ Steady(e) /\ Len(toHub[e]) < MaxQueue
                /\ Head(edgeWatchQ[e]).src = "user"
                /\ Head(edgeWatchQ[e]).event \in {"add", "change"}
                /\ Key(Head(edgeWatchQ[e]).event, Head(edgeWatchQ[e]).path) \notin activeOperations[e]
                /\ KindAt(edgeFs[e], Head(edgeWatchQ[e]).path) = "file")
               => Len(WriteOps(toHub'[e], Head(edgeWatchQ[e]).path))
                     = Len(WriteOps(toHub[e], Head(edgeWatchQ[e]).path)) + 1
          /\ (hubWatchQ # <<>> /\ hubWatchQ' = Tail(hubWatchQ))
               => \A t \in clients :
                     toEdge'[t] = Append(toEdge[t], [HandleFileChange(hubFs, Head(hubWatchQ))
                                                       EXCEPT !.origin = Head(hubWatchQ).by])
          /\ (/\ toEdge[e] # <<>> /\ toEdge'[e] = Tail(toEdge[e]) /\ e \in clients'
              /\ Head(toEdge[e]).type = "fileSystemChange"
              /\ Head(toEdge[e]).event \in {"add", "change"} /\ Head(toEdge[e]).origin = e
              /\ \E k \in timers[e] : k[1] \in {"add", "change"} /\ k[2] = Head(toEdge[e]).path)
               => /\ edgeFs' = edgeFs /\ applying' = applying
                  /\ FileOps(toHub'[e]) = FileOps(toHub[e])]_vars

\* every content request of the edge's reconciliation has been answered and
\* the answer applied, and the hub has handled no operation meanwhile
SyncRan(e) ==
    /\ edgePhase[e] # "idle" /\ lastOp = NoOp
    /\ \A i \in 1..Len(toHub[e]) : toHub[e][i].type # "requestFileContent"
    /\ \A i \in 1..Len(toEdge[e]) : toEdge[e][i].type # "fileContent"

\* C4: for any local tree and any tree of the hub, once syncWithServer has
\* run and the content responses are applied the edge holds what the hub
\* holds: the same paths with the same kinds, the files with the hub's bytes.
C4_InitialSyncResult ==
    \A e \in Edges : SyncRan(e) => SameTree(edgeFs[e], hubFs)

\* C5: no change the edge makes to its tree during reconciliation (the
\* deletions and directories of syncWithServer, the writes of the content
\* responses) is delivered by its watcher and sent to the hub.
C5_ReconciliationNotResent ==
    [][\A e \in Edges :
          (Delivers(e) /\ Head(edgeWatchQ[e]).src \in {"sync", "content"})
             => FileOps(toHub'[e]) = FileOps(toHub[e])]_vars

\* C7: in every snapshot (getFileSystemState, getLocalFiles) an entry below
\* the root comes after a directory item for its parent, so that replaying
\* the items in order as creations never meets a parent that is missing.
RECURSIVE ReplayCreates(_, _)
ReplayCreates(fs, items) ==
    IF items = <<>> THEN TRUE
    ELSE LET it == Head(items)
         IN /\ KindAt(fs, Parent(it.path)) = "dir"
            /\ ReplayCreates([fs EXCEPT ![it.path] = IF it.type = "directory"
                                                     THEN DirNode(DefaultMode("dir"))
                                                     ELSE FileNode(<<>>, DefaultMode("file"))],
                             Tail(items))
C7_DirectoryBeforeDescendant ==
    /\ \A i \in 1..Len(snap) :
          Len(snap[i].path) > 1 =>
             \E j \in 1..(i - 1) : snap[j].path = Parent(snap[i].path) /\ snap[j].type = "directory"
    /\ ReplayCreates(EmptyFs, snap)
\* a snapshot of a tree with a populated directory and an entry beside it
C7_Witness ==
    /\ Len(snap) >= 3
    /\ \E i \in 1..Len(snap) : Len(snap[i].path) > 1

\* C6: no snapshot of the hub's or of an edge's tree, no fileSystemState and
\* no fileSystemChange (chmod broadcasts included) names a path with a hidden
\* segment, and the watchers raise no event for such a path.
C6_HiddenEntryExclusion ==
    /\ \A o \in Orders : \A p \in ItemPaths(GetFileSystemState(hubFs, o)) : ~IsHidden(p)
    /\ \A e \in Edges, o \in Orders : \A p \in ItemPaths(GetLocalFiles(edgeFs[e], o)) : ~IsHidden(p)
    /\ \A i \in 1..Len(hubWatchQ) : ~IsHidden(hubWatchQ[i].path)
    /\ \A e \in Edges :
          /\ \A i \in 1..Len(edgeWatchQ[e]) : ~IsHidden(edgeWatchQ[e][i].path)
          /\ \A i \in 1..Len(toEdge[e]) :
                /\ toEdge[e][i].type = "fileSystemState" =>
                      \A p \in ItemPaths(toEdge[e][i].files) : ~IsHidden(p)
                /\ toEdge[e][i].type = "fileSystemChange" => ~IsHidden(toEdge[e][i].path)
\* an edge that has joined a hub whose tree holds a hidden entry, and has not
\* learnt of it; a user has changed a tree since
C6_Witness ==
    \E e \in Edges, p \in Paths :
        /\ IsHidden(p) /\ Connected(e)
        /\ hubFs[p].kind # "none" /\ edgeFs[e][p].kind = "none"
        /\ mutationsLeft < MaxMutations

\* the step is the hub handling the fileOperation at the head of s's socket
HandlesOp(s) ==
    /\ s \in clients /\ clients' = clients
    /\ toHub[s] # <<>> /\ Head(toHub[s]).type = "fileOperation"
    /\ toHub'[s] = Tail(toHub[s])
HandlesRequest(s) ==
    /\ s \in clients /\ clients' = clients
    /\ toHub[s] # <<>> /\ Head(toHub[s]).type = "requestFileContent"
    /\ toHub'[s] = Tail(toHub[s])

\* C8 (as stated): the same write applied to the hub twice leaves the tree as
\* after the first application, and neither application ends in an
\* operationError.
C8_WriteIdempotentNeverError ==
    [][\A s \in Sessions :
          (HandlesOp(s) /\ Head(toHub[s]).operation = "write" /\ lastOp.data = Head(toHub[s]))
             => hubFs' = hubFs /\ lastOp.ok /\ lastOp'.ok]_vars
\* C8 (amended): the same write applied to the hub twice leaves the tree as
\* after the first application, and the second application ends in an
\* operationError only if the first did; a write whose path is a directory
\* or lies under a file is an error both times.
C8_WriteIdempotent ==
    [][\A s \in Sessions :
          (HandlesOp(s) /\ Head(toHub[s]).operation = "write" /\ lastOp.data = Head(toHub[s]))
             => /\ hubFs' = hubFs
                /\ lastOp'.ok = lastOp.ok
                /\ lastOp.ok <=> KindAt(hubFs, Head(toHub[s]).path) = "file"]_vars
\* the hub has handled the same write twice in a row, with success
C8_Witness ==
    lastOp.again /\ lastOp.data.operation = "write" /\ lastOp.ok

\* C9: on a connection the hub sends one fileSystemState, the snapshot of its
\* tree, to the new session only, and handles no message of that session
\* before it has sent it.
C9_StateBeforeOperations ==
    [][\A s \in Sessions :
          /\ (s \in walking /\ s \notin walking' /\ s \in clients') =>
                /\ \E o \in Orders :
                      toEdge'[s] = Append(toEdge[s], FileSystemState(GetFileSystemState(hubFs, o)))
                /\ \A t \in Sessions \ {s} : toEdge'[t] = toEdge[t]
          /\ (s \notin walking /\ toEdge'[s] # toEdge[s] /\ Len(toEdge'[s]) > Len(toEdge[s])) =>
                toEdge'[s][Len(toEdge'[s])].type # "fileSystemState"
          /\ (HandlesOp(s) \/ HandlesRequest(s)) => s \notin walking]_vars

\* C10: when handleClientOperation fails for an operation of session s (its
\* filesystem call fails or its kind is unknown), the hub sends one
\* operationError with the operation's name and path to s and nothing to any
\* other session, and goes on serving: no session is dropped and no queued
\* message or event is lost.
C10_ErrorToOriginatorOnly ==
    [][\A s \in Sessions :
          (HandlesOp(s) /\ ~Head(toHub[s]).isNull /\ ~lastOp'.ok) =>
             /\ toEdge'[s] = Append(toEdge[s], OperationError(Head(toHub[s]).operation,
                                                              Head(toHub[s]).path))
             /\ \A t \in Sessions \ {s} : toEdge'[t] = toEdge[t] /\ toHub'[t] = toHub[t]
             /\ clients' = clients
             /\ \E n \in 0..Len(hubWatchQ') : SubSeq(hubWatchQ', 1, n) = hubWatchQ]_vars
\* the error of a failed operation is on its way to its session, another
\* session is connected and the next operation of the first is waiting
C10_Witness ==
    \E s \in clients, t \in clients :
        /\ s # t /\ ~lastOp.ok
        /\ toEdge[s] = <<OperationError(lastOp.data.operation, lastOp.data.path)>>
        /\ toEdge[t] = <<>>
        /\ toHub[s] # <<>> /\ Head(toHub[s]).type = "fileOperation"

\* the step is the hub's watcher delivering its first event
HubDelivers == hubWatchQ # <<>> /\ hubWatchQ' = Tail(hubWatchQ)

C12_ContentOnlyUnderRoot ==
    [][\A s \in Sessions :
          HandlesRequest(s) =>
             LET p == Head(toHub[s]).path
             IN /\ toEdge'[s] = Append(toEdge[s],
                                       IF p \in Paths /\ hubFs[p].kind = "file"
                                       THEN FileContent(p, ToBase64(hubFs[p].content))
                                       ELSE OperationError("requestFileContent", p))
                /\ \A t \in Sessions \ {s} : toEdge'[t] = toEdge[t]]_vars

\* C13: a chmod operation that succeeds on the hub is followed by one chmod
\* broadcast with its path and mode to every connected session, its sender
\* included; one that fails changes nothing, is not broadcast, and its sender
\* alone gets an operationError.
C13_ChmodBroadcast ==
    [][\A s \in Sessions :
          (HandlesOp(s) /\ Head(toHub[s]).operation = "chmod") =>
             LET d == Head(toHub[s])
             IN IF d.path \in Paths /\ hubFs[d.path].kind # "none" /\ d.mode # NoMode
                THEN /\ hubFs' = [hubFs EXCEPT ![d.path].mode = d.mode]
                     /\ \A t \in Sessions :
                           IF t \in clients
                           THEN /\ Len(toEdge'[t]) = Len(toEdge[t]) + 1
                                /\ SubSeq(toEdge'[t], 1, Len(toEdge[t])) = toEdge[t]
                                /\ LET m == toEdge'[t][Len(toEdge'[t])]
                                   IN /\ m.type = "fileSystemChange" /\ m.event = "chmod"
                                      /\ m.path = d.path /\ m.mode = d.mode
                           ELSE toEdge'[t] = toEdge[t]
                ELSE /\ hubFs' = hubFs
                     /\ toEdge'[s] = Append(toEdge[s], OperationError("chmod", d.path))
                     /\ \A t \in Sessions \ {s} : toEdge'[t] = toEdge[t]]_vars
\* the broadcast of one session's chmod is on its way to it and to another
C13_Witness ==
    \E s \in clients, t \in clients :
        /\ s # t /\ toEdge[s] # <<>> /\ toEdge[t] = toEdge[s]
        /\ Head(toEdge[s]).event = "chmod" /\ Head(toEdge[s]).origin = s
        /\ hubFs[Head(toEdge[s]).path].mode = Head(toEdge[s]).mode

\* the chmod operations a mode poll of the edge would send now
PollReports(e) ==
    ModePoll(edgeFs[e], LocalChange(<<>>, fileModes[e]), GetLocalFiles(edgeFs[e], SomeOrder)).msgs
ChmodOps(q, p) == SelectSeq(q, LAMBDA m : m.type = "fileOperation" /\ m.operation = "chmod" /\ m.path = p)

\* the step is a user's chmod of the entry p of the edge's tree
UserChmods(e, p) ==
    /\ mutationsLeft' < mutationsLeft
    /\ edgeFs[e][p].kind # "none" /\ edgeFs'[e][p].kind = edgeFs[e][p].kind
    /\ edgeFs'[e][p].mode # edgeFs[e][p].mode

\* the edge's watcher has an event of p to deliver
Pending(e, p) == \E i \in 1..Len(edgeWatchQ[e]) : edgeWatchQ[e][i].path = p

\* the step is a tick of the edge's mode poll that reports something
Polls(e) == Len(toHub'[e]) > Len(toHub[e]) /\ edgeWatchQ' = edgeWatchQ /\ toEdge' = toEdge

\* C14: when a user changes the mode of an entry an edge in Steady lists, and
\* no watcher event reports it, the next poll sends exactly one chmod with the
\* new mode for that path; a poll sends one chmod with the current mode for
\* each listed path whose mode differs from the cached one, caches that mode,
\* and leaves nothing for later polls to send.
C14_PollReportsModeChange ==
    [][\A e \in Edges :
          /\ \A p \in Paths :
                UserChmods(e, p) /\ Steady(e) /\ ~IsHidden(p) /\ ~Pending(e, p) =>
                    LET ops == ChmodOps(PollReports(e)', p)
                    IN Len(ops) = 1 /\ ops[1].mode = edgeFs'[e][p].mode
          /\ Polls(e) =>
                /\ \A p \in Paths :
                      LET sent == ChmodOps(SubSeq(toHub'[e], Len(toHub[e]) + 1, Len(toHub'[e])), p)
                      IN IF ~IsHidden(p) /\ edgeFs[e][p].kind # "none"
                            /\ fileModes[e][p] # edgeFs[e][p].mode
                         THEN /\ Len(sent) = 1 /\ sent[1].mode = edgeFs[e][p].mode
                              /\ fileModes'[e][p] = edgeFs[e][p].mode
                         ELSE sent = <<>> /\ fileModes'[e][p] = fileModes[e][p]
                /\ PollReports(e)' = <<>>]_vars

\* the step is an invocation of handleLocalChange for the watcher's first event
HandlesLocal(e) == Delivers(e) /\ toEdge' = toEdge

\* the step is the edge's handling of a fileSystemState message
RecvsState(e) ==
    /\ toEdge[e] # <<>> /\ Head(toEdge[e]).type = "fileSystemState"
    /\ toEdge'[e] = Tail(toEdge[e])

\* C15: every fileSystemState message the edge receives makes it reconcile its
\* whole tree against that snapshot, and an invocation of handleLocalChange
\* sends nothing while the edge is disconnected, connecting or in InitialSync.
C15_SendsOnlyInSteady ==
    [][\A e \in Edges :
          /\ RecvsState(e) =>
                \E o \in Orders :
                    edgeFs'[e] = SyncWithServer(edgeFs[e], Head(toEdge[e]).files, o).fs
          /\ HandlesLocal(e) /\ (e \notin clients \/ isInitialSync[e]) =>
                toHub'[e] = toHub[e]]_vars

\* the messages that break the protocol
ProtocolError(d) ==
    \/ d.isNull \/ d.path = NoPath
    \/ d.type = "fileOperation" /\ d.operation \notin {"write", "delete", "mkdir", "rename", "chmod"}

\* C16: when the hub handles a fileOperation of an unknown kind, or a
\* fileOperation or requestFileContent whose payload is null or has no path,
\* the hub keeps running, its tree is unchanged, the sender gets one
\* operationError and no other session gets anything.
C16_ProtocolErrorReported ==
    [][\A s \in Sessions :
          (HandlesOp(s) \/ HandlesRequest(s)) /\ hubRunning /\ ProtocolError(Head(toHub[s])) =>
              /\ hubRunning' /\ hubFs' = hubFs
              /\ Len(toEdge'[s]) = Len(toEdge[s]) + 1
              /\ SubSeq(toEdge'[s], 1, Len(toEdge[s])) = toEdge[s]
              /\ toEdge'[s][Len(toEdge'[s])].type = "operationError"
              /\ \A t \in Sessions \ {s} : toEdge'[t] = toEdge[t]]_vars

\* C17: a key that handleServerChange registers is in the ledger when the
\* filesystem call is made, and when the call returns the key is still in the
\* ledger with a timer pending that will release it.
C17_GraceWindow ==
    [][\A e \in Edges :
          /\ \A k \in applying'[e] \ applying[e] : k \in activeOperations'[e]
          /\ \A k \in applying[e] \ applying'[e] :
                k \in activeOperations'[e] /\ k \in timers'[e]]_vars

\* C18: every key added to an edge's ledger is removed again: once the system
\* is quiescent the ledger of every edge is empty.
C18_LedgerDrains ==
    Quiescent => \A e \in Edges : activeOperations[e] = {}

\* the operation an event name or a key prefix stands for
Family(name) ==
    CASE name \in {"add", "change", "write"} -> "write"
      [] name \in {"unlink", "unlinkDir", "delete"} -> "delete"
      [] name \in {"addDir", "mkdir"} -> "mkdir"
      [] OTHER -> name

\* C19: a key registered for path P suppresses every local event of the same
\* family on P: handleLocalChange sends nothing for an event whose family and
\* path are those of a key in the ledger.
C19_KeyPerFamily ==
    [][\A e \in Edges :
          HandlesLocal(e)
          /\ (\E k \in activeOperations[e] :
                 /\ k[2] = Head(edgeWatchQ[e]).path
                 /\ Family(k[1]) = Family(Head(edgeWatchQ[e]).event))
          => toHub'[e] = toHub[e]]_vars

\* C20: once an edge has removed a path and handled the events of the removal,
\* fileModes holds no entry for the path while it is absent.
C20_NoModeForDeletedPath ==
    \A e \in Edges :
        edgeWatchQ[e] = <<>> /\ applying[e] = {} =>
            \A p \in Paths : edgeFs[e][p].kind = "none" => fileModes[e][p] = NoMode

\* the step is the edge's handling of the first message the hub sent it
EdgeReceives(e) == toEdge[e] # <<>> /\ toEdge'[e] = Tail(toEdge[e])

\* C21: a chmod broadcast for a path the edge holds, whatever its mode from 0
\* to 0o777, sets the mode of the path and its fileModes entry to the broadcast
\* mode, and handleServerChange is not entered: no key is registered.
C21_ChmodBroadcastApplied ==
    [][\A e \in Edges :
          LET m == Head(toEdge[e])
          IN EdgeReceives(e) /\ m.type = "fileSystemChange" /\ m.event = "chmod"
             /\ m.mode \in 0..511 /\ KindAt(edgeFs[e], m.path) # "none"
             => /\ edgeFs'[e][m.path].mode = m.mode
                /\ fileModes'[e][m.path] = m.mode
                /\ applying'[e] = applying[e]
                /\ activeOperations'[e] = activeOperations[e]]_vars

\* C22: once the edge has handled a fileSystemState message it eventually is
\* in Steady: isInitialSync is false and its watcher runs, also when a
\* filesystem call of the reconciliation failed.
C22_InitialSyncTerminates ==
    \A e \in Edges : (edgePhase[e] # "idle") ~> Steady(e)

\* C23: the operations the hub receives for a path take effect in the order
\* of their receipt: when the operation received last is a delete and no
\* operation is in progress, the path is absent.
C23_SamePathSerialized ==
    lastOp.data.operation = "delete" /\ hubWriting = {} =>
        KindAt(hubFs, lastOp.data.path) = "none"

C25_ChmodOnlyOnLocalChange ==
    \A e \in Edges, p \in Paths : ChmodOps(toHub[e], p) = <<>>

\* C26: no message refers to the replica root itself: the hub never broadcasts
\* a fileSystemChange whose path is empty (a watcher event for the watched
\* root is ignored) and an edge never sends a fileOperation whose path is empty.
C26_NoMessageForRoot ==
    \A e \in Edges :
        /\ \A i \in 1..Len(toEdge[e]) :
              toEdge[e][i].type = "fileSystemChange" => toEdge[e][i].path # Root
        /\ \A i \in 1..Len(toHub[e]) :
              toHub[e][i].type = "fileOperation" => toHub[e][i].path # Root

\* C27: after any number of connects and reconnects an edge has at most one
\* live watcher and at most one active permission-poll timer: setting up the
\* watcher again tears down the previous watcher and the previous poll loop.
\* (The model keeps one watcher per edge, as setupWatcher closes the one it
\* replaces; the poll timers are counted.)
C27_OnePollTimer ==
    \A e \in Edges : pollTimers[e] <= 1

\* C28: the chmod operation an edge sends for a path it has just created is
\* sent after the write or mkdir that creates the path on the hub: the hub is
\* never about to handle an edge's chmod for a path it does not hold while the
\* operation that creates the path waits behind it in the edge's queue.
C28_ChmodAfterCreate ==
    \A e \in Edges :
        Len(toHub[e]) >= 2 /\ toHub[e][1].type = "fileOperation"
        /\ toHub[e][1].operation = "chmod"
        /\ toHub[e][2].type = "fileOperation"
        /\ toHub[e][2].operation \in {"write", "mkdir"}
        /\ toHub[e][2].path = toHub[e][1].path
        => KindAt(hubFs, toHub[e][1].path) # "none"

====
